---- MODULE Spec2Model ----
(***************************************************************************)
(* Model of the pod converter of k2d                                       *)
(* (internal/adapter/converter/pod.go): the reverse conversion             *)
(* ConvertContainerToPod and the forward conversion                        *)
(* ConvertPodSpecToContainerConfiguration with its helper steps.           *)
(*                                                                         *)
(* One behaviour of the model is one call on a constructed converter.  The *)
(* forward conversion is unfolded into one action per helper call (and one *)
(* per loop iteration where the iteration talks to a store), so that the   *)
(* order of the steps and the store lookups is visible in the state.       *)
(*                                                                         *)
(* Encodings: a Go pointer is a sequence of length 0 (nil) or 1; a Go map  *)
(* is a TLA+ function on its key set (nil and empty maps behave alike      *)
(* under range and lookup); Go strings are TLA+ strings, built with \o as  *)
(* fmt.Sprintf builds them.                                                *)
(***************************************************************************)
EXTENDS Integers, Sequences, FiniteSets, TLC

VARIABLES
    store,            \* configMapStore / secretStore of the converter
    pc,               \* the call that runs next ("idle" before, "done" after)
    idx,              \* loop position inside setEnvVars / setVolumeMounts
    spec,             \* argument: core.PodSpec (first container flattened in)
    containerConfig,  \* *container.Config being built
    hostConfig,       \* *container.HostConfig being built
    steps,            \* history: the helper calls started so far, in order
    lookups,          \* history: the store calls made so far, in order
    outcome,          \* "none" | "ok" | "error" | "panic"
    ret,              \* returned (ContainerConfiguration, error)
    container,        \* argument: types.Container of the reverse conversion
    pod               \* result: core.Pod of the reverse conversion

vars == <<store, pc, idx, spec, containerConfig, hostConfig, steps, lookups,
          outcome, ret, container, pod>>

-----------------------------------------------------------------------------
(* Bounds of the model                                                     *)

MaxPorts == 2
MaxEnv == 2
MaxEnvFrom == 1
MaxVolumes == 2
MaxMounts == 2

-----------------------------------------------------------------------------
(* Generic helpers                                                         *)

Nil == <<>>
Some(v) == <<v>>
IsNil(p) == Len(p) = 0
Deref(p) == p[1]

SeqsUpTo(S, n) == UNION {[1..k -> S] : k \in 0..n}

Range(s) == {s[i] : i \in DOMAIN s}

\* all orders in which a Go range statement may enumerate the key set K
Enumerations(K) ==
    {e \in [1..Cardinality(K) -> K] : \A i, j \in DOMAIN e : e[i] = e[j] => i = j}

IsPrefix(s, t) == Len(s) <= Len(t) /\ SubSeq(t, 1, Len(s)) = s

Digits == <<"0", "1", "2", "3", "4", "5", "6", "7", "8", "9">>

RECURSIVE Itoa(_)
\* strconv.Itoa and the %d verb
Itoa(n) ==
    IF n < 0 THEN "-" \o Itoa(0 - n)
    ELSE IF n < 10 THEN Digits[n + 1]
    ELSE Itoa(n \div 10) \o Digits[(n % 10) + 1]

\* strings.TrimPrefix
TrimPrefix(s, prefix) ==
    IF Len(s) >= Len(prefix) /\ SubSeq(s, 1, Len(prefix)) = prefix
    THEN SubSeq(s, Len(prefix) + 1, Len(s))
    ELSE s

RECURSIVE CollapseSlashes(_)
CollapseSlashes(s) ==
    IF Len(s) < 2 THEN s
    ELSE IF SubSeq(s, 1, 1) = "/" /\ SubSeq(s, 2, 2) = "/"
         THEN CollapseSlashes(SubSeq(s, 2, Len(s)))
         ELSE SubSeq(s, 1, 1) \o CollapseSlashes(SubSeq(s, 2, Len(s)))

\* path.Clean restricted to paths without "." and ".." elements: repeated
\* slashes collapse, a trailing slash is dropped except for the root
PathClean(s) ==
    LET c == CollapseSlashes(s)
    IN  IF c = "" THEN "."
        ELSE IF Len(c) > 1 /\ SubSeq(c, Len(c), Len(c)) = "/"
             THEN SubSeq(c, 1, Len(c) - 1)
             ELSE c

\* path.Join(a, b): empty elements are ignored, the rest joined by "/" and
\* cleaned
PathJoin(a, b) ==
    IF a = "" /\ b = "" THEN ""
    ELSE IF a = "" THEN PathClean(b)
    ELSE IF b = "" THEN PathClean(a)
    ELSE PathClean(a \o "/" \o b)

-----------------------------------------------------------------------------
(* The stores (internal/adapter/store/filesystem) and the server settings  *)

K2dServiceAccountSecretName == "k2d-serviceaccount"
ServiceAccountMountRoot == "/var/run/secrets/kubernetes.io/serviceaccount/"
WorkloadLastAppliedConfigLabelKey == "workload.k2d.io/last-applied-configuration"
K2DNetworkName == "k2d_net"

\* converter.k2dServerConfiguration
k2dServerConfiguration == [ServerIpAddr |-> "10.0.0.1", ServerPort |-> 6443]

DataPath == "/var/lib/k2d"
ConfigMapFolder == "configmaps"
ConfigMapSeparator == "-k2dcm-"
SecretFolder == "secrets"
SecretSeparator == "-k2dsec-"

\* NewFileSystemStore: the two directories of the store
ConfigMapPath == PathJoin(DataPath, ConfigMapFolder)
SecretPath == PathJoin(DataPath, SecretFolder)

ErrNotFound == "resource not found"
ErrBinds == "unable to list files"

ConfigMapCatalog ==
    "cm1" :> [Name |-> "cm1", Data |-> ("A" :> "1" @@ "B" :> "2")]

ServiceAccountSecret ==
    K2dServiceAccountSecretName :>
        [Name |-> K2dServiceAccountSecretName,
         Data |-> ("token" :> "t0k" @@ "ca.crt" :> "pem")]

SecretCatalog ==
    "sec1" :> [Name |-> "sec1", Data |-> ("PASS" :> "x")]

\* the states a store can be in when the converter is called: the service
\* account secret may not have been provisioned, and the files backing one
\* of the resources may be unreadable (its bind enumeration then fails)
Stores ==
    {[configMaps |-> ConfigMapCatalog, secrets |-> s, failBinds |-> f] :
        s \in {SecretCatalog, SecretCatalog @@ ServiceAccountSecret},
        f \in {{}} \cup {{n} : n \in {K2dServiceAccountSecretName, "cm1", "sec1"}}}

\* GetConfigMap / GetSecret: a pointer to the resource, nil when absent
GetConfigMap(name) ==
    IF name \in DOMAIN store.configMaps THEN Some(store.configMaps[name]) ELSE Nil

GetSecret(name) ==
    IF name \in DOMAIN store.secrets THEN Some(store.secrets[name]) ELSE Nil

\* GetConfigMapBinds / GetSecretBinds: map[key]hostPath, nil on failure
GetConfigMapBinds(configMap) ==
    IF configMap.Name \in store.failBinds THEN Nil
    ELSE Some([k \in DOMAIN configMap.Data |->
                 PathJoin(ConfigMapPath, configMap.Name \o ConfigMapSeparator \o k)])

GetSecretBinds(secret) ==
    IF secret.Name \in store.failBinds THEN Nil
    ELSE Some([k \in DOMAIN secret.Data |->
                 PathJoin(SecretPath, secret.Name \o SecretSeparator \o k)])

\* variant: an absent key is rendered as a placeholder
MapLookup_Placeholder(m, k) == IF k \in DOMAIN m THEN m[k] ELSE "<nil>"

\* m[k] on a Go map: the zero value when the key is absent
MapLookup(m, k) == IF k \in DOMAIN m THEN m[k] ELSE ""

-----------------------------------------------------------------------------
(* Inputs of the forward conversion                                        *)

PortValues ==
    {[Protocol |-> "TCP", ContainerPort |-> 80, HostPort |-> 0],
     [Protocol |-> "TCP", ContainerPort |-> 80, HostPort |-> 8080],
     [Protocol |-> "TCP", ContainerPort |-> 80, HostPort |-> 8081],
     [Protocol |-> "UDP", ContainerPort |-> 53, HostPort |-> 53],
     [Protocol |-> "TCP", ContainerPort |-> 70000, HostPort |-> 9000]}

KeyRef(name, key) == [Name |-> name, Key |-> key]

Literal(name, value) == [Name |-> name, Value |-> value, ValueFrom |-> Nil]

FromConfigMap(name, cm, key) ==
    [Name |-> name, Value |-> "",
     ValueFrom |-> Some([ConfigMapKeyRef |-> Some(KeyRef(cm, key)), SecretKeyRef |-> Nil])]

FromSecret(name, sec, key) ==
    [Name |-> name, Value |-> "",
     ValueFrom |-> Some([ConfigMapKeyRef |-> Nil, SecretKeyRef |-> Some(KeyRef(sec, key))])]

\* a value source that is neither kind of key reference (a field reference)
FromOther(name) ==
    [Name |-> name, Value |-> "",
     ValueFrom |-> Some([ConfigMapKeyRef |-> Nil, SecretKeyRef |-> Nil])]

EnvValues ==
    {Literal("FOO", "bar"),
     FromConfigMap("CFG", "cm1", "A"),
     FromConfigMap("MISS", "cm1", "Z"),
     FromConfigMap("NOCM", "nocm", "A"),
     FromSecret("PW", "sec1", "PASS"),
     FromSecret("NOSEC", "nosec", "PASS"),
     FromOther("NODE")}

EnvFromValues ==
    {[ConfigMapRef |-> Some([Name |-> "cm1"]), SecretRef |-> Nil],
     [ConfigMapRef |-> Some([Name |-> "nocm"]), SecretRef |-> Nil],
     [ConfigMapRef |-> Nil, SecretRef |-> Some([Name |-> "sec1"])],
     [ConfigMapRef |-> Nil, SecretRef |-> Some([Name |-> "nosec"])],
     [ConfigMapRef |-> Nil, SecretRef |-> Nil]}

ConfigMapVolume(name, cm) ==
    [Name |-> name, ConfigMap |-> Some([Name |-> cm]), Secret |-> Nil, HostPath |-> Nil]

SecretVolume(name, sec) ==
    [Name |-> name, ConfigMap |-> Nil, Secret |-> Some([SecretName |-> sec]), HostPath |-> Nil]

HostPathVolume(name, p) ==
    [Name |-> name, ConfigMap |-> Nil, Secret |-> Nil, HostPath |-> Some([Path |-> p])]

\* a volume of a kind the converter does not handle (an emptyDir)
OtherVolume(name) ==
    [Name |-> name, ConfigMap |-> Nil, Secret |-> Nil, HostPath |-> Nil]

VolumeValues ==
    {ConfigMapVolume("v", "cm1"),
     HostPathVolume("v", "/host/a"),
     SecretVolume("s", "sec1"),
     SecretVolume("s", "nosec"),
     OtherVolume("v")}

MountValues ==
    {[Name |-> "v", MountPath |-> "/cfg"],
     [Name |-> "v", MountPath |-> "/data/"],
     [Name |-> "s", MountPath |-> "/sec"],
     [Name |-> "x", MountPath |-> "/x"]}

PodSecurityContexts ==
    {Nil} \cup
    {Some([RunAsUser |-> u, RunAsGroup |-> g]) :
        u \in {Nil, Some(0), Some(1000)}, g \in {Nil, Some(1000)}}

SecurityContexts ==
    {Nil} \cup {Some([Privileged |-> p]) : p \in {Nil, Some(TRUE), Some(FALSE)}}

\* a resource.Quantity, held as its number of thousandths
Quantities == {0, 1500}
ResourceNames == {"cpu", "memory", "ephemeral-storage"}
ResourceLists == UNION {[N -> Quantities] : N \in SUBSET ResourceNames}

RestartPolicies == {"", "Always", "OnFailure", "Never", "never"}

Labels == "app" :> "web"

BaseSpec ==
    [Image |-> "nginx", Ports |-> <<>>, Env |-> <<>>, EnvFrom |-> <<>>,
     Command |-> <<>>, Args |-> <<>>, RestartPolicy |-> "",
     SecurityContext |-> Nil, ContainerSecurityContext |-> Nil,
     Requests |-> <<>>, Limits |-> <<>>,
     Volumes |-> <<>>, VolumeMounts |-> <<>>]

\* a pod that uses every feature at once
FullSpec ==
    [Image |-> "nginx",
     Ports |-> <<[Protocol |-> "TCP", ContainerPort |-> 80, HostPort |-> 8080]>>,
     Env |-> <<Literal("FOO", "bar"), FromSecret("PW", "sec1", "PASS")>>,
     EnvFrom |-> <<[ConfigMapRef |-> Some([Name |-> "cm1"]), SecretRef |-> Nil]>>,
     Command |-> <<"sh">>, Args |-> <<"-c", "ls">>, RestartPolicy |-> "OnFailure",
     SecurityContext |-> Some([RunAsUser |-> Some(1000), RunAsGroup |-> Some(1000)]),
     ContainerSecurityContext |-> Some([Privileged |-> Some(TRUE)]),
     Requests |-> ("cpu" :> 1500), Limits |-> ("memory" :> 1500),
     Volumes |-> <<ConfigMapVolume("v", "cm1"), SecretVolume("s", "sec1")>>,
     VolumeMounts |-> <<[Name |-> "v", MountPath |-> "/cfg"],
                        [Name |-> "s", MountPath |-> "/sec"]>>]

\* the pod specifications tried: the base pod with one group of fields
\* varied over its whole domain, and the full pod
PodSpecs ==
    {[BaseSpec EXCEPT !.Ports = p] : p \in SeqsUpTo(PortValues, MaxPorts)}
    \cup {[BaseSpec EXCEPT !.Env = e, !.EnvFrom = f] :
            e \in SeqsUpTo(EnvValues, MaxEnv), f \in SeqsUpTo(EnvFromValues, MaxEnvFrom)}
    \cup {[BaseSpec EXCEPT !.Command = c, !.Args = a, !.RestartPolicy = r] :
            c \in {<<>>, <<"sh">>}, a \in {<<>>, <<"-c", "ls">>}, r \in RestartPolicies}
    \cup {[BaseSpec EXCEPT !.SecurityContext = p, !.ContainerSecurityContext = c] :
            p \in PodSecurityContexts, c \in SecurityContexts}
    \cup {[BaseSpec EXCEPT !.Requests = r, !.Limits = l] :
            r \in ResourceLists, l \in ResourceLists}
    \cup {[BaseSpec EXCEPT !.Volumes = v, !.VolumeMounts = m] :
            v \in SeqsUpTo(VolumeValues, MaxVolumes), m \in SeqsUpTo(MountValues, MaxMounts)}
    \cup {FullSpec}

-----------------------------------------------------------------------------
(* Forward conversion: ConvertPodSpecToContainerConfiguration              *)

\* ContainerConfiguration{}: three nil pointers
ZeroContainerConfiguration ==
    [ContainerConfig |-> Nil, HostConfig |-> Nil, NetworkConfig |-> Nil]

\* container.Resources{}
ZeroResources ==
    [CPUShares |-> 0, MemoryReservation |-> 0, NanoCPUs |-> 0, Memory |-> 0]

\* the zero values of container.Config and container.HostConfig
ZeroConfig ==
    [Image |-> "", Labels |-> <<>>, Env |-> <<>>, ExposedPorts |-> {},
     User |-> "", Entrypoint |-> <<>>, Cmd |-> <<>>]

ZeroHostConfig ==
    [ExtraHosts |-> <<>>, Binds |-> <<>>, PortBindings |-> <<>>,
     Resources |-> ZeroResources, RestartPolicy |-> [Name |-> ""],
     Privileged |-> FALSE]

\* fmt.Sprintf("%s=%s", name, value)
EnvEntry(name, value) == name \o "=" \o value

\* fmt.Sprintf("%s:%s", hostBind, containerPath)
BindEntry(hostBind, containerPath) == hostBind \o ":" \o containerPath

\* fmt.Errorf("unable to ... %s: %w", name, err)
WrapError(what, name, err) == "unable to " \o what \o " " \o name \o ": " \o err

\* control passes to the helper `next`
Call(next) ==
    /\ pc' = next
    /\ idx' = 1
    /\ steps' = Append(steps, next)
    /\ UNCHANGED <<outcome, ret>>

\* variant: the error is returned together with the bundle built so far
ReturnError_PartialBundle(err) ==
    /\ pc' = "done"
    /\ outcome' = "error"
    /\ ret' = [config |-> [ContainerConfig |-> Some(containerConfig),
                           HostConfig |-> Some(hostConfig),
                           NetworkConfig |-> Nil],
               err |-> err]
    /\ UNCHANGED <<idx, steps>>

\* if err != nil { return ContainerConfiguration{}, err }
ReturnError(err) ==
    /\ pc' = "done"
    /\ outcome' = "error"
    /\ ret' = [config |-> ZeroContainerConfiguration, err |-> err]
    /\ UNCHANGED <<idx, steps>>

\* a run-time panic unwinds the conversion: nothing is returned
Panic ==
    /\ pc' = "done"
    /\ outcome' = "panic"
    /\ UNCHANGED <<idx, steps, ret>>

Lookup(op, name) == <<op, name>>

\* lines 79-94: the first container is taken and both configs are seeded
BeginConvert ==
    /\ pc = "idle"
    /\ \E s \in PodSpecs : spec' = s
    /\ containerConfig' =
         [ZeroConfig EXCEPT
            !.Image = spec'.Image,
            !.Labels = Labels,
            !.Env = <<EnvEntry("KUBERNETES_SERVICE_HOST", k2dServerConfiguration.ServerIpAddr),
                      EnvEntry("KUBERNETES_SERVICE_PORT", Itoa(k2dServerConfiguration.ServerPort))>>]
    /\ hostConfig' =
         [ZeroHostConfig EXCEPT
            !.ExtraHosts = <<"kubernetes.default.svc:" \o k2dServerConfiguration.ServerIpAddr>>]
    /\ pc' = "setServiceAccountTokenAndCACert"
    /\ idx' = 1
    /\ steps' = <<"seed", "setServiceAccountTokenAndCACert">>
    /\ UNCHANGED <<store, lookups, outcome, ret, container, pod>>

\* the binds of one resource mounted under root, in enumeration order e
BindsUnder(binds, root, e) ==
    [i \in 1..Len(e) |-> BindEntry(binds[e[i]], PathJoin(root, e[i]))]

setServiceAccountTokenAndCACert ==
    /\ pc = "setServiceAccountTokenAndCACert"
    /\ LET secret == GetSecret(K2dServiceAccountSecretName)
           get == Lookup("GetSecret", K2dServiceAccountSecretName)
           getBinds == Lookup("GetSecretBinds", K2dServiceAccountSecretName)
       IN  IF IsNil(secret)
           THEN /\ lookups' = Append(lookups, get)
                /\ ReturnError(WrapError("get secret", K2dServiceAccountSecretName, ErrNotFound))
                /\ UNCHANGED hostConfig
           ELSE LET binds == GetSecretBinds(Deref(secret))
                IN  /\ lookups' = lookups \o <<get, getBinds>>
                    /\ IF IsNil(binds)
                       THEN /\ ReturnError(WrapError("get binds for secrets",
                                                     K2dServiceAccountSecretName, ErrBinds))
                            /\ UNCHANGED hostConfig
                       ELSE /\ \E e \in Enumerations(DOMAIN Deref(binds)) :
                                 hostConfig' =
                                   [hostConfig EXCEPT !.Binds =
                                      @ \o BindsUnder(Deref(binds), ServiceAccountMountRoot, e)]
                            /\ Call("setHostPorts")
    /\ UNCHANGED <<store, spec, containerConfig, container, pod>>

\* nat.NewPort succeeds exactly for a port number of 16 bits
ValidPort(port) == port >= 0 /\ port <= 65535

\* nat.NewPort(proto, strconv.Itoa(port)): the key "<port>/<proto>"
NewPort(proto, port) == Itoa(port) \o "/" \o proto

\* nat.PortBinding{HostIP: "0.0.0.0", HostPort: strconv.Itoa(hostPort)}
HostBinding(hostPort) == [HostIP |-> "0.0.0.0", HostPort |-> Itoa(hostPort)]

\* containerPortMaps[key] = []nat.PortBinding{binding}
PutBinding(portMaps, key, binding) ==
    [k \in DOMAIN portMaps \cup {key} |->
        IF k = key THEN <<binding>> ELSE portMaps[k]]

RECURSIVE HostPortsLoop(_, _)
\* the loop of setHostPorts after its first n iterations
HostPortsLoop(ports, n) ==
    IF n = 0 THEN [err |-> "", portMaps |-> <<>>, exposed |-> {}]
    ELSE LET prev == HostPortsLoop(ports, n - 1)
             port == ports[n]
             key == NewPort(port.Protocol, port.ContainerPort)
         IN  IF prev.err # "" \/ port.HostPort = 0 THEN prev
             ELSE IF ~ValidPort(port.ContainerPort)
                  THEN [prev EXCEPT !.err = "invalid port " \o Itoa(port.ContainerPort)]
                  ELSE [prev EXCEPT
                          !.portMaps = PutBinding(@, key, HostBinding(port.HostPort)),
                          !.exposed = @ \cup {key}]

setHostPorts ==
    /\ pc = "setHostPorts"
    /\ LET r == HostPortsLoop(spec.Ports, Len(spec.Ports))
       IN  IF r.err # ""
           THEN /\ ReturnError(r.err)
                /\ UNCHANGED <<containerConfig, hostConfig>>
           ELSE /\ containerConfig' = [containerConfig EXCEPT !.ExposedPorts = r.exposed]
                /\ hostConfig' = [hostConfig EXCEPT !.PortBindings = r.portMaps]
                /\ Call("setEnvVars")
    /\ UNCHANGED <<store, spec, lookups, container, pod>>

\* handleValueFromEnvVars: one entry of the Env list that has a ValueFrom
handleValueFromEnvVars(env) ==
    LET valueFrom == Deref(env.ValueFrom)
    IN  IF ~IsNil(valueFrom.ConfigMapKeyRef)
        THEN LET ref == Deref(valueFrom.ConfigMapKeyRef)
                 configMap == GetConfigMap(ref.Name)
             IN  /\ lookups' = Append(lookups, Lookup("GetConfigMap", ref.Name))
                 /\ IF IsNil(configMap)
                    THEN /\ ReturnError(WrapError("get configmap", ref.Name, ErrNotFound))
                         /\ UNCHANGED containerConfig
                    ELSE /\ containerConfig' =
                              [containerConfig EXCEPT !.Env =
                                 Append(@, EnvEntry(env.Name,
                                                    MapLookup(Deref(configMap).Data, ref.Key)))]
                         /\ idx' = idx + 1
                         /\ UNCHANGED <<pc, steps, outcome, ret>>
        ELSE IF ~IsNil(valueFrom.SecretKeyRef)
        THEN LET ref == Deref(valueFrom.SecretKeyRef)
                 secret == GetSecret(ref.Name)
             IN  /\ lookups' = Append(lookups, Lookup("GetSecret", ref.Name))
                 /\ IF IsNil(secret)
                    THEN /\ ReturnError(WrapError("get secret", ref.Name, ErrNotFound))
                         /\ UNCHANGED containerConfig
                    ELSE /\ containerConfig' =
                              [containerConfig EXCEPT !.Env =
                                 Append(@, EnvEntry(env.Name,
                                                    MapLookup(Deref(secret).Data, ref.Key)))]
                         /\ idx' = idx + 1
                         /\ UNCHANGED <<pc, steps, outcome, ret>>
        ELSE /\ idx' = idx + 1
             /\ UNCHANGED <<containerConfig, lookups, pc, steps, outcome, ret>>

\* variant: a value source without a key reference falls back to the literal
setEnvVars_Env_LiteralFallback ==
    /\ pc = "setEnvVars"
    /\ idx <= Len(spec.Env)
    /\ LET env == spec.Env[idx]
       IN  IF /\ ~IsNil(env.ValueFrom)
              /\ \/ ~IsNil(Deref(env.ValueFrom).ConfigMapKeyRef)
                 \/ ~IsNil(Deref(env.ValueFrom).SecretKeyRef)
           THEN handleValueFromEnvVars(env)
           ELSE /\ containerConfig' =
                     [containerConfig EXCEPT !.Env = Append(@, EnvEntry(env.Name, env.Value))]
                /\ idx' = idx + 1
                /\ UNCHANGED <<lookups, pc, steps, outcome, ret>>
    /\ UNCHANGED <<store, spec, hostConfig, container, pod>>

\* setEnvVars, first loop: one iteration over the Env list
setEnvVars_Env ==
    /\ pc = "setEnvVars"
    /\ idx <= Len(spec.Env)
    /\ LET env == spec.Env[idx]
       IN  IF ~IsNil(env.ValueFrom)
           THEN handleValueFromEnvVars(env)
           ELSE /\ containerConfig' =
                     [containerConfig EXCEPT !.Env = Append(@, EnvEntry(env.Name, env.Value))]
                /\ idx' = idx + 1
                /\ UNCHANGED <<lookups, pc, steps, outcome, ret>>
    /\ UNCHANGED <<store, spec, hostConfig, container, pod>>

\* variant: the expansion stops after the first key
ExpandData_FirstOnly(data, e) ==
    [i \in 1..(IF Len(e) > 0 THEN 1 ELSE 0) |-> EnvEntry(e[i], data[e[i]])]

\* the entries one resource expands to, in enumeration order e of its keys
ExpandData(data, e) == [i \in 1..Len(e) |-> EnvEntry(e[i], data[e[i]])]

\* handleValueFromEnvFromSource: one entry of the EnvFrom list
handleValueFromEnvFromSource(env) ==
    IF ~IsNil(env.ConfigMapRef)
    THEN LET name == Deref(env.ConfigMapRef).Name
             configMap == GetConfigMap(name)
         IN  /\ lookups' = Append(lookups, Lookup("GetConfigMap", name))
             /\ IF IsNil(configMap)
                THEN /\ ReturnError(WrapError("get configmap", name, ErrNotFound))
                     /\ UNCHANGED containerConfig
                ELSE /\ \E e \in Enumerations(DOMAIN Deref(configMap).Data) :
                          containerConfig' =
                            [containerConfig EXCEPT !.Env =
                               @ \o ExpandData(Deref(configMap).Data, e)]
                     /\ idx' = idx + 1
                     /\ UNCHANGED <<pc, steps, outcome, ret>>
    ELSE IF ~IsNil(env.SecretRef)
    THEN LET name == Deref(env.SecretRef).Name
             secret == GetSecret(name)
         IN  /\ lookups' = Append(lookups, Lookup("GetSecret", name))
             /\ IF IsNil(secret)
                THEN /\ ReturnError(WrapError("get secret", name, ErrNotFound))
                     /\ UNCHANGED containerConfig
                ELSE /\ \E e \in Enumerations(DOMAIN Deref(secret).Data) :
                          containerConfig' =
                            [containerConfig EXCEPT !.Env =
                               @ \o ExpandData(Deref(secret).Data, e)]
                     /\ idx' = idx + 1
                     /\ UNCHANGED <<pc, steps, outcome, ret>>
    ELSE /\ idx' = idx + 1
         /\ UNCHANGED <<containerConfig, lookups, pc, steps, outcome, ret>>

\* setEnvVars, second loop: one iteration over the EnvFrom list
setEnvVars_EnvFrom ==
    /\ pc = "setEnvVars"
    /\ idx > Len(spec.Env)
    /\ idx <= Len(spec.Env) + Len(spec.EnvFrom)
    /\ handleValueFromEnvFromSource(spec.EnvFrom[idx - Len(spec.Env)])
    /\ UNCHANGED <<store, spec, hostConfig, container, pod>>

\* variant: the command step is left out of the sequence
setEnvVars_Return_SkipCommand ==
    /\ pc = "setEnvVars"
    /\ idx > Len(spec.Env) + Len(spec.EnvFrom)
    /\ Call("setRestartPolicy")
    /\ UNCHANGED <<store, spec, containerConfig, hostConfig, lookups, container, pod>>

\* setEnvVars returns nil after both loops
setEnvVars_Return ==
    /\ pc = "setEnvVars"
    /\ idx > Len(spec.Env) + Len(spec.EnvFrom)
    /\ Call("setCommandAndArgs")
    /\ UNCHANGED <<store, spec, containerConfig, hostConfig, lookups, container, pod>>

setCommandAndArgs ==
    /\ pc = "setCommandAndArgs"
    /\ containerConfig' =
         [containerConfig EXCEPT
            !.Entrypoint = IF Len(spec.Command) > 0 THEN spec.Command ELSE @,
            !.Cmd = IF Len(spec.Args) > 0 THEN spec.Args ELSE @]
    /\ Call("setRestartPolicy")
    /\ UNCHANGED <<store, spec, hostConfig, lookups, container, pod>>

\* the switch of setRestartPolicy
RestartPolicyName(restartPolicy) ==
    CASE restartPolicy = "OnFailure" -> "on-failure"
      [] restartPolicy = "Never" -> "no"
      [] OTHER -> "always"

setRestartPolicy ==
    /\ pc = "setRestartPolicy"
    /\ hostConfig' =
         [hostConfig EXCEPT !.RestartPolicy = [Name |-> RestartPolicyName(spec.RestartPolicy)]]
    /\ Call("setSecurityContext")
    /\ UNCHANGED <<store, spec, containerConfig, lookups, container, pod>>

\* setSecurityContext as a function of the two contexts: the new User and
\* Privileged, given the current ones
SecurityContextResult(user, privileged, podSecurityContext, containerSecurityContext) ==
    IF IsNil(podSecurityContext)
    THEN [User |-> user, Privileged |-> privileged]
    ELSE LET psc == Deref(podSecurityContext)
             newUser == IF ~IsNil(psc.RunAsUser) /\ ~IsNil(psc.RunAsGroup)
                        THEN Itoa(Deref(psc.RunAsUser)) \o ":" \o Itoa(Deref(psc.RunAsGroup))
                        ELSE user
         IN  IF IsNil(containerSecurityContext)
             THEN [User |-> newUser, Privileged |-> privileged]
             ELSE LET csc == Deref(containerSecurityContext)
                  IN  [User |-> newUser,
                       Privileged |-> IF ~IsNil(csc.Privileged)
                                      THEN Deref(csc.Privileged)
                                      ELSE privileged]

setSecurityContext ==
    /\ pc = "setSecurityContext"
    /\ LET r == SecurityContextResult(containerConfig.User, hostConfig.Privileged,
                                      spec.SecurityContext, spec.ContainerSecurityContext)
       IN  /\ containerConfig' = [containerConfig EXCEPT !.User = r.User]
           /\ hostConfig' = [hostConfig EXCEPT !.Privileged = r.Privileged]
    /\ Call("setResourceRequirements")
    /\ UNCHANGED <<store, spec, lookups, container, pod>>

\* resource.Quantity.MilliValue and Value (Value rounds up to a whole unit)
MilliValue(q) == q
Value(q) == (q + 999) \div 1000

\* variant: the memory request lands in the hard memory ceiling
ResourceRequirements_RequestAsLimit(requests, limits) ==
    [CPUShares |-> IF "cpu" \in DOMAIN requests
                   THEN MilliValue(requests["cpu"]) ELSE ZeroResources.CPUShares,
     MemoryReservation |-> ZeroResources.MemoryReservation,
     NanoCPUs |-> IF "cpu" \in DOMAIN limits
                  THEN MilliValue(limits["cpu"]) * 1000000 ELSE ZeroResources.NanoCPUs,
     Memory |-> IF "memory" \in DOMAIN requests
                THEN Value(requests["memory"]) ELSE ZeroResources.Memory]

\* the two loops of setResourceRequirements: a name other than cpu and
\* memory sets nothing, a field no entry sets keeps its zero value
ResourceRequirements(requests, limits) ==
    [CPUShares |-> IF "cpu" \in DOMAIN requests
                   THEN MilliValue(requests["cpu"]) ELSE ZeroResources.CPUShares,
     MemoryReservation |-> IF "memory" \in DOMAIN requests
                           THEN Value(requests["memory"])
                           ELSE ZeroResources.MemoryReservation,
     NanoCPUs |-> IF "cpu" \in DOMAIN limits
                  THEN MilliValue(limits["cpu"]) * 1000000 ELSE ZeroResources.NanoCPUs,
     Memory |-> IF "memory" \in DOMAIN limits
                THEN Value(limits["memory"]) ELSE ZeroResources.Memory]

setResourceRequirements ==
    /\ pc = "setResourceRequirements"
    /\ hostConfig' =
         [hostConfig EXCEPT !.Resources = ResourceRequirements(spec.Requests, spec.Limits)]
    /\ Call("setVolumeMounts")
    /\ UNCHANGED <<store, spec, containerConfig, lookups, container, pod>>

\* the inner loop of setVolumeMounts: the position of the first volume mount
\* that names the volume, 0 when there is none
MatchingMount(volume, volumeMounts) ==
    LET matches == {j \in DOMAIN volumeMounts : volumeMounts[j].Name = volume.Name}
    IN  IF matches = {} THEN 0
        ELSE CHOOSE j \in matches : \A k \in matches : j <= k

handleVolumeSource(volume, volumeMount) ==
    IF ~IsNil(volume.ConfigMap)
    THEN LET name == Deref(volume.ConfigMap).Name
             configMap == GetConfigMap(name)
         IN  IF IsNil(configMap)
             THEN /\ lookups' = Append(lookups, Lookup("GetConfigMap", name))
                  /\ ReturnError(WrapError("get configmap", name, ErrNotFound))
                  /\ UNCHANGED hostConfig
             ELSE LET binds == GetConfigMapBinds(Deref(configMap))
                  IN  /\ lookups' = lookups \o <<Lookup("GetConfigMap", name),
                                                  Lookup("GetConfigMapBinds", name)>>
                      /\ IF IsNil(binds)
                         THEN /\ ReturnError(WrapError("get binds for configmap", name, ErrBinds))
                              /\ UNCHANGED hostConfig
                         ELSE /\ \E e \in Enumerations(DOMAIN Deref(binds)) :
                                   hostConfig' =
                                     [hostConfig EXCEPT !.Binds =
                                        @ \o BindsUnder(Deref(binds), volumeMount.MountPath, e)]
                              /\ idx' = idx + 1
                              /\ UNCHANGED <<pc, steps, outcome, ret>>
    ELSE IF ~IsNil(volume.Secret)
    THEN LET name == Deref(volume.Secret).SecretName
             secret == GetSecret(name)
         IN  IF IsNil(secret)
             THEN /\ lookups' = Append(lookups, Lookup("GetSecret", name))
                  /\ ReturnError(WrapError("get secret", name, ErrNotFound))
                  /\ UNCHANGED hostConfig
             ELSE LET binds == GetSecretBinds(Deref(secret))
                  IN  /\ lookups' = lookups \o <<Lookup("GetSecret", name),
                                                  Lookup("GetSecretBinds", name)>>
                      /\ IF IsNil(binds)
                         THEN \* line 407 reads volume.VolumeSource.ConfigMap.Name
                              /\ IF IsNil(volume.ConfigMap)
                                 THEN Panic
                                 ELSE ReturnError(WrapError("get binds for secrets",
                                                            Deref(volume.ConfigMap).Name,
                                                            ErrBinds))
                              /\ UNCHANGED hostConfig
                         ELSE /\ \E e \in Enumerations(DOMAIN Deref(binds)) :
                                   hostConfig' =
                                     [hostConfig EXCEPT !.Binds =
                                        @ \o BindsUnder(Deref(binds), volumeMount.MountPath, e)]
                              /\ idx' = idx + 1
                              /\ UNCHANGED <<pc, steps, outcome, ret>>
    ELSE IF ~IsNil(volume.HostPath)
    THEN /\ hostConfig' =
              [hostConfig EXCEPT !.Binds =
                 Append(@, BindEntry(Deref(volume.HostPath).Path, volumeMount.MountPath))]
         /\ idx' = idx + 1
         /\ UNCHANGED <<lookups, pc, steps, outcome, ret>>
    ELSE /\ idx' = idx + 1
         /\ UNCHANGED <<hostConfig, lookups, pc, steps, outcome, ret>>

\* setVolumeMounts: one iteration of the outer loop, over the volumes
setVolumeMounts ==
    /\ pc = "setVolumeMounts"
    /\ idx <= Len(spec.Volumes)
    /\ LET volume == spec.Volumes[idx]
           j == MatchingMount(volume, spec.VolumeMounts)
       IN  IF j # 0
           THEN handleVolumeSource(volume, spec.VolumeMounts[j])
           ELSE /\ idx' = idx + 1
                /\ UNCHANGED <<hostConfig, lookups, pc, steps, outcome, ret>>
    /\ UNCHANGED <<store, spec, containerConfig, container, pod>>

\* lines 117-125: setVolumeMounts returned nil, the bundle is returned
ReturnConfiguration ==
    /\ pc = "setVolumeMounts"
    /\ idx > Len(spec.Volumes)
    /\ ret' = [config |->
                 [ContainerConfig |-> Some(containerConfig),
                  HostConfig |-> Some(hostConfig),
                  NetworkConfig |-> Some([EndpointsConfig |-> {K2DNetworkName}])],
               err |-> ""]
    /\ outcome' = "ok"
    /\ pc' = "done"
    /\ UNCHANGED <<store, idx, spec, containerConfig, hostConfig, steps, lookups,
                   container, pod>>

-----------------------------------------------------------------------------
(* Reverse conversion: ConvertContainerToPod                               *)

\* the container descriptors tried; the engine gives every container at
\* least one name
Containers ==
    {[ID |-> "c0ffee", Names |-> n, Image |-> "nginx", Created |-> c, State |-> s,
      Labels |-> l] :
        n \in {<<"/web">>, <<"web">>, <<"//web">>, <<"/">>, <<"/a", "/b">>},
        c \in {0, 1700000000},
        s \in {"running", "Running", "exited", "created", "paused", "restarting", ""},
        l \in {<<>>, WorkloadLastAppliedConfigLabelKey :> "{}"}}

\* metav1.NewTime(time.Unix(sec, 0))
UnixTime(sec) == [sec |-> sec, nsec |-> 0]

\* the name the pod gets: line 22
ContainerName(c) == TrimPrefix(c.Names[1], "/")

\* variant: a restarting container counts as running
IsRunning_OrRestarting(state) == state \in {"running", "restarting"}

\* the branch on the lifecycle state: lines 57-70
IsRunning(state) == state = "running"

PodOf(c) ==
    LET containerName == ContainerName(c)
        status == [Name |-> containerName, ContainerID |-> c.ID, RestartCount |-> 0,
                   Ready |-> FALSE, Started |-> Nil, Running |-> Nil]
    IN  [Kind |-> "Pod", APIVersion |-> "v1",
         Name |-> containerName,
         CreationTimestamp |-> UnixTime(c.Created),
         Namespace |-> "default",
         Annotations |-> ("kubectl.kubernetes.io/last-applied-configuration" :>
                            MapLookup(c.Labels, WorkloadLastAppliedConfigLabelKey)),
         Containers |-> <<[Name |-> containerName, Image |-> c.Image]>>,
         Phase |-> IF IsRunning(c.State) THEN "Running" ELSE "Unknown",
         ContainerStatuses |->
           <<IF IsRunning(c.State)
             THEN [status EXCEPT !.Ready = TRUE, !.Started = Some(TRUE),
                                 !.Running = Some([StartedAt |-> UnixTime(c.Created)])]
             ELSE status>>]

EmptyContainer ==
    [ID |-> "", Names |-> <<>>, Image |-> "", Created |-> 0, State |-> "", Labels |-> <<>>]

\* core.Pod{}
EmptyPod ==
    [Kind |-> "", APIVersion |-> "", Name |-> "", CreationTimestamp |-> UnixTime(0),
     Namespace |-> "", Annotations |-> <<>>, Containers |-> <<>>, Phase |-> "",
     ContainerStatuses |-> <<>>]

ConvertContainerToPod ==
    /\ pc = "idle"
    /\ \E c \in Containers :
         /\ container' = c
         /\ pod' = PodOf(c)
    /\ pc' = "converted"
    /\ UNCHANGED <<store, idx, spec, containerConfig, hostConfig, steps, lookups,
                   outcome, ret>>

-----------------------------------------------------------------------------
(* The converter after NewDockerAPIConverter: stores attached, no call yet *)

Init ==
    /\ store \in Stores
    /\ pc = "idle"
    /\ idx = 1
    /\ spec = BaseSpec
    /\ containerConfig = ZeroConfig
    /\ hostConfig = ZeroHostConfig
    /\ steps = <<>>
    /\ lookups = <<>>
    /\ outcome = "none"
    /\ ret = [config |-> ZeroContainerConfiguration, err |-> ""]
    /\ container = EmptyContainer
    /\ pod = EmptyPod

Next ==
    \/ BeginConvert
    \/ setServiceAccountTokenAndCACert
    \/ setHostPorts
    \/ setEnvVars_Env
    \/ setEnvVars_EnvFrom
    \/ setEnvVars_Return
    \/ setCommandAndArgs
    \/ setRestartPolicy
    \/ setSecurityContext
    \/ setResourceRequirements
    \/ setVolumeMounts
    \/ ReturnConfiguration
    \/ ConvertContainerToPod

Spec == Init /\ [][Next]_vars

TypeOK ==
    /\ store \in Stores
    /\ pc \in {"idle", "done", "converted", "setServiceAccountTokenAndCACert",
               "setHostPorts", "setEnvVars", "setCommandAndArgs", "setRestartPolicy",
               "setSecurityContext", "setResourceRequirements", "setVolumeMounts"}
    /\ idx \in 1..(MaxEnv + MaxEnvFrom + MaxVolumes + 1)
    /\ spec \in PodSpecs
    /\ outcome \in {"none", "ok", "error", "panic"}
    /\ (outcome = "none") = (pc # "done")
    /\ (container = EmptyContainer) = (pc # "converted")

-----------------------------------------------------------------------------
(* Properties                                                              *)

Started(step) == step \in Range(steps)

\* the helper `step` has run to its end without an error
Passed(step) ==
    \E i \in DOMAIN steps : steps[i] = step /\ (i < Len(steps) \/ outcome = "ok")

ServiceAccountMissing == K2dServiceAccountSecretName \notin DOMAIN store.secrets

\* the binds appended after those of the service account
VolumeBinds ==
    SubSeq(hostConfig.Binds,
           Cardinality(DOMAIN store.secrets[K2dServiceAccountSecretName].Data) + 1,
           Len(hostConfig.Binds))

FirstVolumeNamed(name) ==
    LET matches == {i \in DOMAIN spec.Volumes : spec.Volumes[i].Name = name}
    IN  spec.Volumes[CHOOSE i \in matches : \A k \in matches : i <= k]

\* the binds of one volume at one mount
BindsOfVolumeAt(volume, mount) ==
    IF ~IsNil(volume.ConfigMap)
    THEN LET cm == store.configMaps[Deref(volume.ConfigMap).Name]
         IN  {BindEntry(PathJoin(ConfigMapPath, cm.Name \o ConfigMapSeparator \o k),
                        PathJoin(mount.MountPath, k)) : k \in DOMAIN cm.Data}
    ELSE IF ~IsNil(volume.Secret)
    THEN LET sec == store.secrets[Deref(volume.Secret).SecretName]
         IN  {BindEntry(PathJoin(SecretPath, sec.Name \o SecretSeparator \o k),
                        PathJoin(mount.MountPath, k)) : k \in DOMAIN sec.Data}
    ELSE IF ~IsNil(volume.HostPath)
    THEN {BindEntry(Deref(volume.HostPath).Path, mount.MountPath)}
    ELSE {}

\* C1: after a successful conversion the volume binds are exactly those of
\* the volume mounts whose name is the name of a declared volume, each mount
\* bound to the first declared volume of that name; a mount that names no
\* declared volume contributes nothing.
C1_BindPerMatchingMount ==
    outcome = "ok" =>
        Range(VolumeBinds) =
            UNION {BindsOfVolumeAt(FirstVolumeNamed(spec.VolumeMounts[j].Name),
                                   spec.VolumeMounts[j]) :
                     j \in {k \in DOMAIN spec.VolumeMounts :
                              \E i \in DOMAIN spec.Volumes :
                                 spec.Volumes[i].Name = spec.VolumeMounts[k].Name}}

\* C2: when the service-account secret is not in the store, the conversion
\* ends with an error right after that lookup: no later step has started, no
\* other store call was made and the returned bundle is the zero value.
C2_AbortOnMissingServiceAccount ==
    (ServiceAccountMissing /\ Started("setServiceAccountTokenAndCACert")
        /\ pc # "setServiceAccountTokenAndCACert") =>
        /\ pc = "done"
        /\ outcome = "error"
        /\ ret.err = "unable to get secret k2d-serviceaccount: resource not found"
        /\ ret.config.ContainerConfig = Nil
        /\ ret.config.HostConfig = Nil
        /\ ret.config.NetworkConfig = Nil
        /\ steps = <<"seed", "setServiceAccountTokenAndCACert">>
        /\ lookups = <<<<"GetSecret", K2dServiceAccountSecretName>>>>

C2_Witness ==
    /\ ServiceAccountMissing
    /\ outcome = "error"
    /\ spec = FullSpec

\* C3: once the security-context step has run, a privileged flag supplied by
\* the container-level context is the host config's Privileged, with or
\* without a pod-level context, and a pod-level context with both ids gives
\* the user "<uid>:<gid>".
C3_LayersIndependent ==
    Passed("setSecurityContext") =>
        /\ (~IsNil(spec.ContainerSecurityContext)
              /\ ~IsNil(Deref(spec.ContainerSecurityContext).Privileged)) =>
             hostConfig.Privileged = Deref(Deref(spec.ContainerSecurityContext).Privileged)
        /\ (~IsNil(spec.SecurityContext)
              /\ ~IsNil(Deref(spec.SecurityContext).RunAsUser)
              /\ ~IsNil(Deref(spec.SecurityContext).RunAsGroup)) =>
             containerConfig.User =
                Itoa(Deref(Deref(spec.SecurityContext).RunAsUser)) \o ":" \o
                Itoa(Deref(Deref(spec.SecurityContext).RunAsGroup))

\* the volume step ended on a store that found a resource and could not list
\* its binds
BindResolutionFailed ==
    /\ pc = "done"
    /\ outcome # "ok"
    /\ Len(steps) > 0 /\ steps[Len(steps)] = "setVolumeMounts"
    /\ Len(lookups) > 0
    /\ lookups[Len(lookups)][1] \in {"GetConfigMapBinds", "GetSecretBinds"}
    /\ lookups[Len(lookups)][2] \in store.failBinds

\* C4: a bind resolution failure of a volume's config map or secret ends the
\* conversion with a returned error that names the operation and the
\* resource, for both kinds of volume.
C4_BindFailureIsWrappedError ==
    BindResolutionFailed =>
        /\ outcome = "error"
        /\ ret.err \in {WrapError("get binds for configmap", lookups[Len(lookups)][2], ErrBinds),
                        WrapError("get binds for secrets", lookups[Len(lookups)][2], ErrBinds)}

\* C5: once the port step has run, every port with a non-zero host port P
\* has its key (proto, C) among the exposed ports and its binding
\* ("0.0.0.0", P) under that key, and a key is exposed or bound only for
\* such a port.
C5_EveryHostPortBound ==
    Passed("setHostPorts") =>
        /\ \A i \in DOMAIN spec.Ports :
             spec.Ports[i].HostPort # 0 =>
                LET key == Itoa(spec.Ports[i].ContainerPort) \o "/" \o spec.Ports[i].Protocol
                IN  /\ key \in containerConfig.ExposedPorts
                    /\ key \in DOMAIN hostConfig.PortBindings
                    /\ [HostIP |-> "0.0.0.0", HostPort |-> Itoa(spec.Ports[i].HostPort)]
                          \in Range(hostConfig.PortBindings[key])
        /\ \A key \in containerConfig.ExposedPorts \cup DOMAIN hostConfig.PortBindings :
             \E i \in DOMAIN spec.Ports :
                /\ spec.Ports[i].HostPort # 0
                /\ key = Itoa(spec.Ports[i].ContainerPort) \o "/" \o spec.Ports[i].Protocol

\* the resource list without the entry of one name
Without(list, name) == [n \in DOMAIN list \ {name} |-> list[n]]

\* C6 (as claimed): once the resource step has run, declaring a cpu or memory
\* request or limit gives a host config that differs from the one the same
\* pod gives with that request or limit omitted.
C6_AbsentAndZeroDistinct ==
    Passed("setResourceRequirements") =>
        /\ \A n \in {"cpu", "memory"} \cap DOMAIN spec.Requests :
             hostConfig.Resources # ResourceRequirements(Without(spec.Requests, n), spec.Limits)
        /\ \A n \in {"cpu", "memory"} \cap DOMAIN spec.Limits :
             hostConfig.Resources # ResourceRequirements(spec.Requests, Without(spec.Limits, n))

Declared(list, name) == name \in DOMAIN list /\ list[name] # 0

\* C6 (amended): once the resource step has run, each resource field is
\* non-zero only if its request or limit was declared with a non-zero
\* quantity, and is zero both when the request or limit is omitted and when
\* it is declared as zero.
C6_NonZeroOnlyIfDeclared ==
    Passed("setResourceRequirements") =>
        LET r == hostConfig.Resources
        IN  /\ (r.CPUShares # 0) => Declared(spec.Requests, "cpu")
            /\ (r.MemoryReservation # 0) => Declared(spec.Requests, "memory")
            /\ (r.NanoCPUs # 0) => Declared(spec.Limits, "cpu")
            /\ (r.Memory # 0) => Declared(spec.Limits, "memory")

C6_Witness ==
    /\ Passed("setResourceRequirements")
    /\ DOMAIN spec.Requests = {"cpu", "memory"}
    /\ spec.Requests["cpu"] = 0
    /\ spec.Requests["memory"] = 1500
    /\ DOMAIN spec.Limits = {"ephemeral-storage"}
    /\ hostConfig.Resources =
         [CPUShares |-> 0, MemoryReservation |-> 2, NanoCPUs |-> 0, Memory |-> 0]

ClaimedStepOrder ==
    <<"seed", "setServiceAccountTokenAndCACert", "setHostPorts", "setEnvVars",
      "setVolumeMounts", "setCommandAndArgs", "setRestartPolicy",
      "setSecurityContext", "setResourceRequirements">>

CallStepOrder ==
    <<"seed", "setServiceAccountTokenAndCACert", "setHostPorts", "setEnvVars",
      "setCommandAndArgs", "setRestartPolicy", "setSecurityContext",
      "setResourceRequirements", "setVolumeMounts">>

\* C8 (as claimed): the steps started so far are always an initial part of
\* seed, service account, host ports, environment, volume binds, command,
\* restart policy, security context, resources.
C8_VolumesAfterEnvironment == IsPrefix(steps, ClaimedStepOrder)

\* C8 (amended): the steps started so far are always an initial part of
\* seed, service account, host ports, environment, command, restart policy,
\* security context, resources, volume binds (volume binds come last); and
\* once a step has failed no further step starts and no store call is made.
C8_VolumesLast ==
    /\ [](IsPrefix(steps, CallStepOrder))
    /\ [][(outcome # "none") => (steps' = steps /\ lookups' = lookups)]_vars
    /\ [](outcome \in {"error", "panic"} => pc = "done")

C8_Witness ==
    /\ outcome = "error"
    /\ steps = CallStepOrder
    /\ spec.Volumes = <<ConfigMapVolume("v", "cm1")>>
    /\ hostConfig.Privileged = FALSE
    /\ hostConfig.RestartPolicy.Name = "always"

\* the resource an indirect environment entry refers to: <<kind, data>> with
\* kind "configmap" or "secret", data Nil when the store has no such resource
ReferredResource(env) ==
    LET valueFrom == Deref(env.ValueFrom)
    IN  IF ~IsNil(valueFrom.ConfigMapKeyRef)
        THEN LET ref == Deref(valueFrom.ConfigMapKeyRef)
             IN  [kind |-> "configmap", name |-> ref.Name, key |-> ref.Key,
                  found |-> ref.Name \in DOMAIN store.configMaps]
        ELSE LET ref == Deref(valueFrom.SecretKeyRef)
             IN  [kind |-> "secret", name |-> ref.Name, key |-> ref.Key,
                  found |-> ref.Name \in DOMAIN store.secrets]

IsLiteral(env) == IsNil(env.ValueFrom)

IsKeyReference(env) ==
    /\ ~IsNil(env.ValueFrom)
    /\ \/ ~IsNil(Deref(env.ValueFrom).ConfigMapKeyRef)
       \/ ~IsNil(Deref(env.ValueFrom).SecretKeyRef)

RefersToMissing(env) == IsKeyReference(env) /\ ~ReferredResource(env).found

\* what the claim says a literal or key-reference entry becomes
ClaimedEntry(env) ==
    IF IsLiteral(env) THEN env.Name \o "=" \o env.Value
    ELSE LET r == ReferredResource(env)
             data == IF r.kind = "configmap" THEN store.configMaps[r.name].Data
                     ELSE store.secrets[r.name].Data
         IN  IF r.key \in DOMAIN data THEN env.Name \o "=" \o data[r.key]
             ELSE env.Name \o "="

LiteralOrKeyReference(env) == IsLiteral(env) \/ IsKeyReference(env)

ClaimedEntries ==
    LET kept == SelectSeq(spec.Env, LiteralOrKeyReference)
    IN  [i \in 1..Len(kept) |-> ClaimedEntry(kept[i])]

\* C9: after a successful conversion the environment starts with
\* KUBERNETES_SERVICE_HOST and KUBERNETES_SERVICE_PORT, followed by the
\* entries of the literal and key-reference inputs in input order
\* ("NAME=VALUE", "NAME=<value of the key>", "NAME=" for an absent key); and
\* once the environment step is over, an input that refers to a resource the
\* store does not have has made the conversion fail with an error that names
\* the first such resource.
C9_EnvironmentInInputOrder ==
    /\ outcome = "ok" =>
         IsPrefix(<<"KUBERNETES_SERVICE_HOST=10.0.0.1", "KUBERNETES_SERVICE_PORT=6443">>
                    \o ClaimedEntries,
                  Deref(ret.config.ContainerConfig).Env)
    /\ (Started("setEnvVars") /\ \E i \in DOMAIN spec.Env : RefersToMissing(spec.Env[i])) =>
         LET first == CHOOSE i \in DOMAIN spec.Env :
                         /\ RefersToMissing(spec.Env[i])
                         /\ \A k \in 1..(i - 1) : ~RefersToMissing(spec.Env[k])
             r == ReferredResource(spec.Env[first])
         IN  IF pc = "setEnvVars"
             THEN idx <= first
             ELSE /\ outcome = "error"
                  /\ steps[Len(steps)] = "setEnvVars"
                  /\ ret.err = "unable to get " \o r.kind \o " " \o r.name
                                 \o ": resource not found"

C9_Witness ==
    /\ outcome = "ok"
    /\ spec.Env = <<FromConfigMap("MISS", "cm1", "Z"), FromSecret("PW", "sec1", "PASS")>>
    /\ Deref(ret.config.ContainerConfig).Env =
         <<"KUBERNETES_SERVICE_HOST=10.0.0.1", "KUBERNETES_SERVICE_PORT=6443",
           "MISS=", "PW=x">>

\* the env-from entry the environment step is about to expand, when it
\* refers to a resource the store has
AtFoundEnvFrom ==
    /\ pc = "setEnvVars"
    /\ idx > Len(spec.Env)
    /\ idx <= Len(spec.Env) + Len(spec.EnvFrom)
    /\ LET env == spec.EnvFrom[idx - Len(spec.Env)]
       IN  \/ /\ ~IsNil(env.ConfigMapRef)
              /\ Deref(env.ConfigMapRef).Name \in DOMAIN store.configMaps
           \/ /\ IsNil(env.ConfigMapRef)
              /\ ~IsNil(env.SecretRef)
              /\ Deref(env.SecretRef).Name \in DOMAIN store.secrets

EnvFromData ==
    LET env == spec.EnvFrom[idx - Len(spec.Env)]
    IN  IF ~IsNil(env.ConfigMapRef)
        THEN store.configMaps[Deref(env.ConfigMapRef).Name].Data
        ELSE store.secrets[Deref(env.SecretRef).Name].Data

\* C10: expanding an env-from entry whose config map or secret is found
\* keeps the entries already in the environment as they are and appends
\* exactly one entry "KEY=VALUE" for each key of the resource's data, in
\* some order, and nothing else.
C10_EnvFromExpandsEveryKey ==
    [][AtFoundEnvFrom =>
         LET old == containerConfig.Env
             new == containerConfig'.Env
         IN  /\ IsPrefix(old, new)
             /\ Len(new) = Len(old) + Cardinality(DOMAIN EnvFromData)
             /\ {new[i] : i \in (Len(old) + 1)..Len(new)} =
                  {k \o "=" \o EnvFromData[k] : k \in DOMAIN EnvFromData}
             /\ outcome' = "none"]_vars

C10_Witness ==
    /\ outcome = "ok"
    /\ spec.Env = <<Literal("FOO", "bar")>>
    /\ spec.EnvFrom = <<[ConfigMapRef |-> Some([Name |-> "cm1"]), SecretRef |-> Nil]>>
    /\ containerConfig.Env =
         <<"KUBERNETES_SERVICE_HOST=10.0.0.1", "KUBERNETES_SERVICE_PORT=6443",
           "FOO=bar", "B=2", "A=1">>

\* an environment entry with a value source that is neither a config-map
\* key reference nor a secret key reference
HasOtherSource(env) == ~IsNil(env.ValueFrom) /\ ~IsKeyReference(env)

OtherSourceEntries == {i \in DOMAIN spec.Env : HasOtherSource(spec.Env[i])}

\* the environment step is about to handle such an entry
AtOtherSource ==
    /\ pc = "setEnvVars"
    /\ idx <= Len(spec.Env)
    /\ HasOtherSource(spec.Env[idx])

RECURSIVE EnvFromKeyCount(_)
\* the number of keys of the resources the first n env-from entries name
EnvFromKeyCount(n) ==
    IF n = 0 THEN 0
    ELSE LET env == spec.EnvFrom[n]
             keys == IF ~IsNil(env.ConfigMapRef)
                     THEN DOMAIN store.configMaps[Deref(env.ConfigMapRef).Name].Data
                     ELSE IF ~IsNil(env.SecretRef)
                     THEN DOMAIN store.secrets[Deref(env.SecretRef).Name].Data
                     ELSE {}
         IN  Cardinality(keys) + EnvFromKeyCount(n - 1)

====
